---- MODULE Spec2Model ----
(***************************************************************************)
(* Model of the two export pipelines of ADLVisualizer:                     *)
(*   scripts/data/export_flow_data.py        (Flow Aggregator)             *)
(*   scripts/data/export_adl_events_json.py  (Record Normalizer)           *)
(*                                                                         *)
(* Floats are modelled as tagged values [kind, v]: "num" carries an        *)
(* integer, "nan", "inf" and "-inf" are the IEEE specials the code meets.  *)
(* Notionals are integers, so every sum is exact.                          *)
(* A dict (defaultdict) is a sequence of [k, v] entries in insertion       *)
(* order, which is the order Python iterates and sorts them in.            *)
(***************************************************************************)
EXTENDS Integers, Sequences, FiniteSets, TLC

\* ------------------------------------------------------------------ bounds
\* Number of rows of the loaded table.
MaxRows == 3
\* Largest k tried for the top-k account lists.
MaxK == 2

\* ------------------------------------------------------------------ floats
Num(n) == [kind |-> "num", v |-> n]
NaN == [kind |-> "nan", v |-> 0]
PosInf == [kind |-> "inf", v |-> 0]
NegInf == [kind |-> "-inf", v |-> 0]

\* pd.isna / pd.notna on a scalar
IsNa(x) == x.kind = "nan"

\* abs(float(x))
FAbs(x) == IF x.kind = "num" THEN Num(IF x.v < 0 THEN -x.v ELSE x.v)
           ELSE IF x.kind = "-inf" THEN PosInf ELSE x

\* x <= 0 on floats: every comparison with NaN is False
FLeqZero(x) == \/ x.kind = "-inf"
               \/ x.kind = "num" /\ x.v <= 0

\* min(acc, t) and max(acc, t) with acc starting at +inf / -inf and t an int
PyMin(acc, t) == IF acc.kind = "num" /\ acc.v <= t THEN acc ELSE Num(t)
PyMax(acc, t) == IF acc.kind = "num" /\ acc.v >= t THEN acc ELSE Num(t)

\* int(a / b) for integers a and b > 0: Python's int() truncates toward zero
TruncDiv(a, b) == IF a >= 0 THEN a \div b ELSE -((-a) \div b)

\* ------------------------------------------------------------------ dicts
Keys(d) == {d[i].k : i \in DOMAIN d}
Has(d, key) == \E i \in DOMAIN d : d[i].k = key
Get(d, key) == d[CHOOSE i \in DOMAIN d : d[i].k = key].v

\* d[key] = x: the total overwritten instead of added to
AddToOverwrite(d, key, x) ==
    IF Has(d, key)
    THEN [i \in DOMAIN d |-> IF d[i].k = key THEN [k |-> key, v |-> x] ELSE d[i]]
    ELSE Append(d, [k |-> key, v |-> x])

\* d[key] += x on a defaultdict(float)
AddTo(d, key, x) ==
    IF Has(d, key)
    THEN [i \in DOMAIN d |-> IF d[i].k = key THEN [k |-> key, v |-> d[i].v + x] ELSE d[i]]
    ELSE Append(d, [k |-> key, v |-> x])

\* d[k1] = {k2: x}: the inner dict replaced instead of updated
AddTo2Replace(d, k1, k2, x) ==
    IF Has(d, k1)
    THEN [i \in DOMAIN d |-> IF d[i].k = k1 THEN [k |-> k1, v |-> AddTo(<<>>, k2, x)] ELSE d[i]]
    ELSE Append(d, [k |-> k1, v |-> AddTo(<<>>, k2, x)])

\* d[k1][k2] += x on a defaultdict of defaultdict(float)
AddTo2(d, k1, k2, x) ==
    IF Has(d, k1)
    THEN [i \in DOMAIN d |-> IF d[i].k = k1 THEN [k |-> k1, v |-> AddTo(d[i].v, k2, x)] ELSE d[i]]
    ELSE Append(d, [k |-> k1, v |-> AddTo(<<>>, k2, x)])

\* sum(d.values())
RECURSIVE SumValues(_)
SumValues(d) == IF d = <<>> THEN 0 ELSE d[1].v + SumValues(Tail(d))

\* sum(e[f] for e in s)
RECURSIVE SumField(_, _)
SumField(s, f) == IF s = <<>> THEN 0 ELSE s[1][f] + SumField(Tail(s), f)

\* ------------------------------------------------------------------ flow rows
\* A row of the loaded table as export_flow_data reads it.
Row(t, lu, u, c, n) ==
    [time |-> t, liquidated_user |-> lu, user |-> u, coin |-> c, adl_notional |-> n]

Times == {-1500, -500, 999, 1500}
Accounts == {"U1", "U2", "U3"}

\* rows that vary the time and the notional: counted ones in every second,
\* skipped ones (0 and NaN) in the first and the last
TimeRows ==
    {Row(t, "U1", "U2", "BTC", n) : t \in Times, n \in {Num(1), Num(-2)}}
    \cup {Row(t, "U1", "U2", "BTC", n) : t \in {-1500, 1500}, n \in {Num(0), NaN}}
\* rows that vary the two accounts of the flow
AccountRows ==
    {Row(0, p[1], p[2], "ETH", Num(1)) : p \in {q \in Accounts \X Accounts : q[1] # q[2]}}

VARIABLES
    df,                  \* rows of the table read so far
    pc,                  \* "loop" | "done" | "aborted"
    asset_flows, asset_totals, liquidated_by_asset, adld_by_asset,
    account_flows, account_totals_in, account_totals_out,
    time_buckets, min_timestamp, max_timestamp,
    output_data,         \* the emitted flow document
    n_df,                \* export_adl_events_json: rows of the table read so far
    n_pc,                \* export_adl_events_json: "loop" | "done" | "aborted"
    events,              \* export_adl_events_json: the events list
    events_doc           \* export_adl_events_json: the emitted events document

flowVars == <<df, pc, asset_flows, asset_totals, liquidated_by_asset, adld_by_asset,
              account_flows, account_totals_in, account_totals_out,
              time_buckets, min_timestamp, max_timestamp, output_data>>

normVars == <<n_df, n_pc, events, events_doc>>

vars == <<flowVars, normVars>>

\* The accumulators as one value.
EmptyState ==
    [asset_flows |-> <<>>, asset_totals |-> <<>>,
     liquidated_by_asset |-> <<>>, adld_by_asset |-> <<>>,
     account_flows |-> <<>>, account_totals_in |-> <<>>, account_totals_out |-> <<>>,
     time_buckets |-> <<>>, min_timestamp |-> PosInf, max_timestamp |-> NegInf]

State ==
    [asset_flows |-> asset_flows, asset_totals |-> asset_totals,
     liquidated_by_asset |-> liquidated_by_asset, adld_by_asset |-> adld_by_asset,
     account_flows |-> account_flows, account_totals_in |-> account_totals_in,
     account_totals_out |-> account_totals_out,
     time_buckets |-> time_buckets, min_timestamp |-> min_timestamp,
     max_timestamp |-> max_timestamp]

\* the default value of time_buckets[...]
NewBucket ==
    [assetFlows |-> <<>>, accountFlows |-> <<>>, liquidatedByAsset |-> <<>>,
     adldByAsset |-> <<>>, cumulativeNotional |-> 0, eventCount |-> 0]

\* time_bucket = int(timestamp_ms / 1000) * 1000
TimeBucket(timestamp_ms) == TruncDiv(timestamp_ms, 1000) * 1000

\* eventCount set to 1 instead of incremented
UpdateBucketCountOnce(b, asset, liquidated_user, target_user, notional) ==
    [assetFlows |-> AddTo2(b.assetFlows, asset, asset, notional),
     accountFlows |-> AddTo2(b.accountFlows, liquidated_user, target_user, notional),
     liquidatedByAsset |-> AddTo(b.liquidatedByAsset, asset, notional),
     adldByAsset |-> AddTo(b.adldByAsset, asset, notional),
     cumulativeNotional |-> b.cumulativeNotional + notional,
     eventCount |-> 1]

\* the bucket updates of one row
UpdateBucket(b, asset, liquidated_user, target_user, notional) ==
    [assetFlows |-> AddTo2(b.assetFlows, asset, asset, notional),
     accountFlows |-> AddTo2(b.accountFlows, liquidated_user, target_user, notional),
     liquidatedByAsset |-> AddTo(b.liquidatedByAsset, asset, notional),
     adldByAsset |-> AddTo(b.adldByAsset, asset, notional),
     cumulativeNotional |-> b.cumulativeNotional + notional,
     eventCount |-> b.eventCount + 1]

\* bucket_data = time_buckets[time_bucket], then the updates
TouchBucket(tb, key, asset, liquidated_user, target_user, notional) ==
    IF Has(tb, key)
    THEN [i \in DOMAIN tb |->
            IF tb[i].k = key
            THEN [k |-> key, v |-> UpdateBucket(tb[i].v, asset, liquidated_user, target_user, notional)]
            ELSE tb[i]]
    ELSE Append(tb, [k |-> key, v |-> UpdateBucket(NewBucket, asset, liquidated_user, target_user, notional)])

\* notional = abs(float(row['adl_notional']))
RowNotional(row) == FAbs(row.adl_notional)

\* the filter tested on the signed value
SkippedSigned(row) == FLeqZero(row.adl_notional) \/ IsNa(row.adl_notional)

\* if notional <= 0 or pd.isna(notional): continue
Skipped(row) == FLeqZero(RowNotional(row)) \/ IsNa(RowNotional(row))

\* the running time range, read before the filter
TrackRange(st, row) ==
    LET timestamp_ms == row.time
    IN  [st EXCEPT !.min_timestamp = PyMin(st.min_timestamp, timestamp_ms),
                   !.max_timestamp = PyMax(st.max_timestamp, timestamp_ms)]

\* the updates of a row that passed the filter
Accumulate(st, row) ==
    LET timestamp_ms == row.time
        liquidated_user == row.liquidated_user
        target_user == row.user
        asset == row.coin
        notional == RowNotional(row).v
    IN  [st EXCEPT
            !.liquidated_by_asset = AddTo(@, asset, notional),
            !.adld_by_asset = AddTo(@, asset, notional),
            !.asset_flows = AddTo2(@, asset, asset, notional),
            !.asset_totals = AddTo(@, asset, notional),
            !.account_flows = AddTo2(@, liquidated_user, target_user, notional),
            !.account_totals_out = AddTo(@, liquidated_user, notional),
            !.account_totals_in = AddTo(@, target_user, notional),
            !.time_buckets = TouchBucket(@, TimeBucket(timestamp_ms),
                                         asset, liquidated_user, target_user, notional)]

\* the time range updated after the filter instead of before it
LoopBodyRangeAfterFilter(st, row) ==
    IF Skipped(row) THEN st ELSE Accumulate(TrackRange(st, row), row)

\* One iteration of the aggregation loop.
LoopBody(st, row) ==
    IF Skipped(row) THEN TrackRange(st, row) ELSE Accumulate(TrackRange(st, row), row)

\* ------------------------------------------------------------------ flow document
\* sorted(d.items(), key=lambda x: x[1], reverse=True): stable, so entries of
\* equal value keep their insertion order
InsertDesc(s, e) ==
    LET n == Cardinality({i \in DOMAIN s : s[i].v >= e.v})
    IN  SubSeq(s, 1, n) \o <<e>> \o SubSeq(s, n + 1, Len(s))

RECURSIVE SortDesc(_)
SortDesc(d) ==
    IF d = <<>> THEN <<>>
    ELSE InsertDesc(SortDesc(SubSeq(d, 1, Len(d) - 1)), d[Len(d)])

\* s[:k]
Take(s, k) == SubSeq(s, 1, IF k < Len(s) THEN k ELSE Len(s))

\* sorted(keys) of integer keys
RECURSIVE SortedKeys(_)
SortedKeys(S) ==
    IF S = {} THEN <<>>
    ELSE LET m == CHOOSE x \in S : \A y \in S : x <= y
         IN  <<m>> \o SortedKeys(S \ {m})

\* for source, targets in d.items(): for target, notional in targets.items():
\*     if notional > 0: {source, target, notional}
RECURSIVE Edges(_)
Edges(d) ==
    IF d = <<>> THEN <<>>
    ELSE LET source == d[1].k
             targets == d[1].v
             row == [j \in DOMAIN targets |->
                        [source |-> source, target |-> targets[j].k, notional |-> targets[j].v]]
         IN  SelectSeq(row, LAMBDA e : e.notional > 0) \o Edges(Tail(d))

\* sum(1 for _, row in df.iterrows() if str(row['coin']) == source
\*                                  and abs(float(row.get('adl_notional', 0))) > 0)
CountPositive(rows, source) ==
    Cardinality({i \in DOMAIN rows :
        /\ rows[i].coin = source
        /\ RowNotional(rows[i]).kind = "num"
        /\ RowNotional(rows[i]).v > 0})

\* sum(1 for _, row in df.iterrows() if str(row['coin']) == asset)
CountAsset(rows, asset) == Cardinality({i \in DOMAIN rows : rows[i].coin = asset})

AssetFlowsList(st, rows) ==
    LET es == Edges(st.asset_flows)
    IN  [i \in DOMAIN es |->
            [source |-> es[i].source, target |-> es[i].target,
             notional |-> es[i].notional, count |-> CountPositive(rows, es[i].source)]]

\* top_liquidated / top_counterparties
TopAccounts(totals, k) == Take(SortDesc(totals), k)

\* the target of an edge not tested against top_accounts_set
AccountFlowsListSourceOnly(st, k) ==
    LET top_liquidated == TopAccounts(st.account_totals_out, k)
        top_counterparties == TopAccounts(st.account_totals_in, k)
        top_accounts_set == Keys(top_liquidated \o top_counterparties)
    IN  SelectSeq(Edges(st.account_flows), LAMBDA e : e.source \in top_accounts_set)

\* account_flows_list: edges whose two endpoints are in top_accounts_set
AccountFlowsList(st, k) ==
    LET top_liquidated == TopAccounts(st.account_totals_out, k)
        top_counterparties == TopAccounts(st.account_totals_in, k)
        top_accounts_set == Keys(top_liquidated \o top_counterparties)
    IN  SelectSeq(Edges(st.account_flows),
                  LAMBDA e : e.source \in top_accounts_set /\ e.target \in top_accounts_set)

\* the running sums not carried from one bucket to the next
RECURSIVE TimeBucketsListNoCarry(_, _, _, _, _)
TimeBucketsListNoCarry(keys, tb, cumulative, cumulative_liquidated, cumulative_adld) ==
    IF keys = <<>> THEN <<>>
    ELSE LET time_ms == keys[1]
             bucket == Get(tb, time_ms)
             bucket_data ==
                 [time |-> time_ms,
                  cumulativeNotional |-> bucket.cumulativeNotional,
                  cumulativeLiquidated |-> SumValues(bucket.liquidatedByAsset),
                  cumulativeAdld |-> SumValues(bucket.adldByAsset),
                  notionalInBucket |-> bucket.cumulativeNotional,
                  eventCount |-> bucket.eventCount,
                  liquidatedByAsset |-> bucket.liquidatedByAsset,
                  adldByAsset |-> bucket.adldByAsset,
                  assetFlows |-> Edges(bucket.assetFlows)]
         IN  <<bucket_data>> \o TimeBucketsListNoCarry(Tail(keys), tb, 0, 0, 0)

\* the loop over sorted(time_buckets.keys()) with its three running sums
RECURSIVE TimeBucketsList(_, _, _, _, _)
TimeBucketsList(keys, tb, cumulative, cumulative_liquidated, cumulative_adld) ==
    IF keys = <<>> THEN <<>>
    ELSE LET time_ms == keys[1]
             bucket == Get(tb, time_ms)
             c == cumulative + bucket.cumulativeNotional
             cl == cumulative_liquidated + SumValues(bucket.liquidatedByAsset)
             ca == cumulative_adld + SumValues(bucket.adldByAsset)
             bucket_data ==
                 [time |-> time_ms,
                  cumulativeNotional |-> c,
                  cumulativeLiquidated |-> cl,
                  cumulativeAdld |-> ca,
                  notionalInBucket |-> bucket.cumulativeNotional,
                  eventCount |-> bucket.eventCount,
                  liquidatedByAsset |-> bucket.liquidatedByAsset,
                  adldByAsset |-> bucket.adldByAsset,
                  assetFlows |-> Edges(bucket.assetFlows)]
         IN  <<bucket_data>> \o TimeBucketsList(Tail(keys), tb, c, cl, ca)

AssetStats(st, rows) ==
    LET sorted == SortDesc(st.asset_totals)
    IN  [i \in DOMAIN sorted |->
            [asset |-> sorted[i].k, totalNotional |-> sorted[i].v,
             eventCount |-> CountAsset(rows, sorted[i].k)]]

\* output_data (timeISO, durationMinutes and assetLiquidationStats are left out:
\* they are formatted or re-sorted copies of values kept here)
Document(st, rows, k) ==
    [metadata |->
        [eventCount |-> Len(rows),
         timeRange |-> [start |-> st.min_timestamp.v, end |-> st.max_timestamp.v],
         totalNotionalUsd |-> SumValues(st.asset_totals),
         totalLiquidatedNotional |-> SumValues(st.liquidated_by_asset),
         totalAdldNotional |-> SumValues(st.adld_by_asset),
         uniqueAssets |-> Len(st.asset_totals),
         uniqueAccounts |-> Cardinality(Keys(st.account_totals_in) \cup Keys(st.account_totals_out))],
     assetFlows |-> AssetFlowsList(st, rows),
     assetStats |-> AssetStats(st, rows),
     accountFlows |-> AccountFlowsList(st, k),
     topAccounts |->
        [liquidated |-> TopAccounts(st.account_totals_out, k),
         counterparties |-> TopAccounts(st.account_totals_in, k)],
     timeBuckets |-> TimeBucketsList(SortedKeys(Keys(st.time_buckets)), st.time_buckets, 0, 0, 0)]

\* ------------------------------------------------------------------ flow actions
NoDocument == <<>>

FlowInit ==
    /\ df = <<>>
    /\ pc = "loop"
    /\ asset_flows = EmptyState.asset_flows
    /\ asset_totals = EmptyState.asset_totals
    /\ liquidated_by_asset = EmptyState.liquidated_by_asset
    /\ adld_by_asset = EmptyState.adld_by_asset
    /\ account_flows = EmptyState.account_flows
    /\ account_totals_in = EmptyState.account_totals_in
    /\ account_totals_out = EmptyState.account_totals_out
    /\ time_buckets = EmptyState.time_buckets
    /\ min_timestamp = EmptyState.min_timestamp
    /\ max_timestamp = EmptyState.max_timestamp
    /\ output_data = NoDocument

\* for _, row in df.iterrows(): one row of the table goes through the loop body
ReadRow(row) ==
    /\ pc = "loop"
    /\ Len(df) < MaxRows
    /\ LET n == LoopBody(State, row)
       IN  /\ asset_flows' = n.asset_flows
           /\ asset_totals' = n.asset_totals
           /\ liquidated_by_asset' = n.liquidated_by_asset
           /\ adld_by_asset' = n.adld_by_asset
           /\ account_flows' = n.account_flows
           /\ account_totals_in' = n.account_totals_in
           /\ account_totals_out' = n.account_totals_out
           /\ time_buckets' = n.time_buckets
           /\ min_timestamp' = n.min_timestamp
           /\ max_timestamp' = n.max_timestamp
    /\ df' = Append(df, row)
    /\ UNCHANGED <<pc, output_data>>
    /\ UNCHANGED normVars

ReadTimeRow == \E row \in TimeRows : ReadRow(row)
ReadAccountRow == \E row \in AccountRows : ReadRow(row)

\* the table is exhausted: the lists are built and the document is written
\* (k is 50 in the program)
EmitDocument ==
    /\ pc = "loop"
    /\ min_timestamp.kind = "num"
    /\ \E k \in 1..MaxK : output_data' = Document(State, df, k)
    /\ pc' = "done"
    /\ UNCHANGED <<df, asset_flows, asset_totals, liquidated_by_asset, adld_by_asset,
                   account_flows, account_totals_in, account_totals_out,
                   time_buckets, min_timestamp, max_timestamp>>
    /\ UNCHANGED normVars

\* an empty table: int(min_timestamp) is int(float('inf')), which raises
EmitFails ==
    /\ pc = "loop"
    /\ min_timestamp.kind # "num"
    /\ pc' = "aborted"
    /\ UNCHANGED <<df, asset_flows, asset_totals, liquidated_by_asset, adld_by_asset,
                   account_flows, account_totals_in, account_totals_out,
                   time_buckets, min_timestamp, max_timestamp, output_data>>
    /\ UNCHANGED normVars

\* ------------------------------------------------------------------ normalizer rows
\* Timestamps of the normalizer count units of 10^9 (TLC's integers are 32-bit):
\* 1700 is 1.7e12 ms. The seconds/milliseconds threshold 1e12 is 1000 units, and
\* multiplying by 1000 is exact.
SecondsThreshold == 1000

\* the values the `time` cell of a row can hold
TNum(n) == [kind |-> "num", v |-> n]         \* a number
TNaN == [kind |-> "nan", v |-> 0]            \* an empty cell: float NaN
TIso(ms) == [kind |-> "iso", v |-> ms]       \* an ISO-8601 string of that instant
TNumStr(n) == [kind |-> "numstr", v |-> n]   \* a string float() accepts
TGarbage == [kind |-> "garbage", v |-> 0]    \* any other string

\* a string cell, or an empty one
Str(s) == [kind |-> "str", v |-> s]
NoStr == [kind |-> "nan", v |-> ""]

NRow(t, c, an, n, val, lu, u) ==
    [time |-> t, coin |-> c, asset |-> NoStr, ticker |-> NoStr, symbol |-> NoStr,
     adl_notional |-> an, notional |-> n, usd |-> NaN, value |-> val,
     liquidated_user |-> lu, user |-> u]

NormTimes == {TNum(1), TNum(2), TNum(300), TNum(1700), TNaN, TIso(1697), TNumStr(1), TGarbage}

\* rows that vary the time cell
NormTimeRows == {NRow(t, Str("BTC"), Num(5), NaN, NaN, Str("U2"), Str("U1")) : t \in NormTimes}
\* rows that vary the notional columns
NormNotionalRows ==
    {NRow(TNum(1700), Str("ETH"), an, n, NaN, Str("U2"), Str("U1")) :
        an \in {NaN, Num(0), Num(-1)}, n \in {NaN, Num(7)}}
    \cup {NRow(TNum(1700), Str("ETH"), NaN, NaN, Num(3), Str("U2"), Str("U1"))}
\* rows without asset or user ids
NormIdRows ==
    {NRow(TNum(2), NoStr, Num(5), NaN, NaN, NoStr, NoStr),
     NRow(TNum(2), Str("BTC"), Num(5), NaN, NaN, Str("U2"), NoStr)}

NormRows == NormTimeRows \cup NormNotionalRows \cup NormIdRows

\* ------------------------------------------------------------------ normalizer
Value(v) == [status |-> "value", v |-> v]
None == [status |-> "none", v |-> 0]
Raises == [status |-> "raises", v |-> 0]

\* parse_timestamp(ts): epoch milliseconds, None, or an exception that leaves it
\* (int(ts) of a float NaN raises ValueError outside any try)
parse_timestamp(ts) ==
    CASE ts.kind = "num" ->
            IF ts.v < SecondsThreshold THEN Value(ts.v * 1000) ELSE Value(ts.v)
      [] ts.kind = "nan" -> Raises
      [] ts.kind = "iso" -> Value(ts.v)
      [] ts.kind = "numstr" ->
            IF ts.v < SecondsThreshold THEN Value(ts.v * 1000) ELSE Value(ts.v)
      [] OTHER -> None

\* datetime.fromtimestamp(timestamp_ms / 1000) raises ValueError past year 9999
\* (253402300800 s, i.e. 253402.3 units of 10^9 ms)
FromTimestampRaises(timestamp_ms) == timestamp_ms > 253402

\* for col in [...]: if col in row and pd.notna(row[col]): ... break
RECURSIVE FirstNotNa(_)
FirstNotNa(cells) ==
    IF cells = <<>> THEN [kind |-> "missing", v |-> 0]
    ELSE IF ~IsNa(cells[1]) THEN cells[1] ELSE FirstNotNa(Tail(cells))

AssetOf(row) == FirstNotNa(<<row.coin, row.asset, row.ticker, row.symbol>>)
NotionalOf(row) == FirstNotNa(<<row.adl_notional, row.notional, row.usd, row.value>>)

\* x or default, for a string cell resolved above
StrOr(x, default) == IF x.kind = "str" /\ x.v # "" THEN x.v ELSE default

\* The body of the normalization loop for one row: "skip" (continue), "raises",
\* or the event appended (side, batchId, timestampISO and the optional fields
\* are functions of the row alone and are left out).
NormalizeRow(row) ==
    LET timestamp_ms == parse_timestamp(row.time)
        notional == NotionalOf(row)
    IN  IF timestamp_ms.status = "raises" THEN [status |-> "raises"]
        ELSE IF timestamp_ms.status = "none" THEN [status |-> "skip"]
        ELSE IF notional.kind = "missing" \/ notional.v <= 0 THEN [status |-> "skip"]
        ELSE IF FromTimestampRaises(timestamp_ms.v) THEN [status |-> "raises"]
        ELSE [status |-> "event",
              event |-> [timestamp |-> timestamp_ms.v,
                         asset |-> StrOr(AssetOf(row), "UNKNOWN"),
                         notionalUsd |-> notional.v,
                         liquidatedUserId |-> StrOr(row.liquidated_user, ""),
                         targetUserId |-> StrOr(row.user, "")]]

\* events.sort(key=lambda x: x['timestamp']): stable
InsertByTimestamp(s, e) ==
    LET n == Cardinality({i \in DOMAIN s : s[i].timestamp <= e.timestamp})
    IN  SubSeq(s, 1, n) \o <<e>> \o SubSeq(s, n + 1, Len(s))

RECURSIVE SortByTimestamp(_)
SortByTimestamp(es) ==
    IF es = <<>> THEN <<>>
    ELSE InsertByTimestamp(SortByTimestamp(SubSeq(es, 1, Len(es) - 1)), es[Len(es)])

\* the document json.dump writes
EventsDocument(es) ==
    [metadata |->
        [eventCount |-> Len(es),
         timeRange |-> [start |-> IF es # <<>> THEN es[1].timestamp ELSE 0,
                        end |-> IF es # <<>> THEN es[Len(es)].timestamp ELSE 0],
         totalNotionalUsd |-> SumField(es, "notionalUsd"),
         uniqueAssets |-> Cardinality({es[i].asset : i \in DOMAIN es}),
         uniqueAccounts |-> Cardinality({es[i].targetUserId : i \in DOMAIN es} \ {""})],
     events |-> es]

NormInit ==
    /\ n_df = <<>>
    /\ n_pc = "loop"
    /\ events = <<>>
    /\ events_doc = NoDocument

\* one row goes through the loop body: skipped, or its event is appended
NormalizeNext ==
    /\ n_pc = "loop"
    /\ Len(n_df) < MaxRows
    /\ \E row \in NormRows :
          LET r == NormalizeRow(row)
          IN  /\ r.status # "raises"
              /\ n_df' = Append(n_df, row)
              /\ events' = IF r.status = "event" THEN Append(events, r.event) ELSE events
    /\ UNCHANGED <<n_pc, events_doc>>
    /\ UNCHANGED flowVars

\* the loop body raises on a row: the script ends, nothing is written
NormalizeRaises ==
    /\ n_pc = "loop"
    /\ Len(n_df) < MaxRows
    /\ \E row \in NormRows :
          /\ NormalizeRow(row).status = "raises"
          /\ n_df' = Append(n_df, row)
    /\ n_pc' = "aborted"
    /\ UNCHANGED <<events, events_doc>>
    /\ UNCHANGED flowVars

\* the table is exhausted: the events are sorted and the document is written
EmitEvents ==
    /\ n_pc = "loop"
    /\ events' = SortByTimestamp(events)
    /\ events_doc' = EventsDocument(events')
    /\ n_pc' = "done"
    /\ UNCHANGED n_df
    /\ UNCHANGED flowVars

Init == FlowInit /\ NormInit

Next == ReadTimeRow \/ ReadAccountRow \/ EmitDocument \/ EmitFails

\* export_flow_data.py
Spec == Init /\ [][Next]_vars

NormNext == NormalizeNext \/ NormalizeRaises \/ EmitEvents

\* export_adl_events_json.py
SpecNorm == Init /\ [][NormNext]_vars

\* ------------------------------------------------------------------ normalizer claims
\* a row whose time resolves and whose first non-null notional column is > 0
ValidRow(row) ==
    /\ parse_timestamp(row.time).status = "value"
    /\ NotionalOf(row).kind = "num"
    /\ NotionalOf(row).v > 0

\* the event such a row stands for
ExpectedEvent(row) ==
    [timestamp |-> parse_timestamp(row.time).v,
     asset |-> IF AssetOf(row).kind = "str" THEN AssetOf(row).v ELSE "UNKNOWN",
     notionalUsd |-> NotionalOf(row).v,
     liquidatedUserId |-> IF row.liquidated_user.kind = "str" THEN row.liquidated_user.v ELSE "",
     targetUserId |-> IF row.user.kind = "str" THEN row.user.v ELSE ""]

\* the events of the valid rows, in non-decreasing timestamp order, rows of equal
\* timestamp in table order: event i goes to the place given by its rank
ExpectedEvents(rows) ==
    LET valid == SelectSeq(rows, ValidRow)
        es == [i \in DOMAIN valid |-> ExpectedEvent(valid[i])]
        rank(i) == 1 + Cardinality({j \in DOMAIN es : es[j].timestamp < es[i].timestamp})
                     + Cardinality({j \in DOMAIN es : j < i /\ es[j].timestamp = es[i].timestamp})
    IN  [p \in DOMAIN es |-> es[CHOOSE i \in DOMAIN es : rank(i) = p]]

\* what the run has written when it ends: the events of the document, or nothing
EmittedEvents == IF n_pc = "done" THEN events_doc.events ELSE <<>>

\* C1: when the run ends, the emitted events are exactly one event per valid row
\* (missing asset -> "UNKNOWN", missing user ids -> ""), sorted by timestamp,
\* ties in table order.
C1_OneEventPerValidRow ==
    n_pc # "loop" => EmittedEvents = ExpectedEvents(n_df)

\* The same for the runs that reach the end of the script.
EventsOfCompletedRun ==
    n_pc = "done" => events_doc.events = ExpectedEvents(n_df)

\* a row whose timestamp cannot be resolved: a garbage string or an empty cell
Unresolvable(row) == row.time.kind \in {"garbage", "nan"}

\* C6: a row whose timestamp cannot be resolved is dropped alone: the run is not
\* aborted by it, and the other valid rows still yield their events.
C6_UnresolvableDropped ==
    /\ n_pc = "aborted" => ~Unresolvable(n_df[Len(n_df)])
    /\ (n_pc = "done" /\ \E i \in DOMAIN n_df : Unresolvable(n_df[i]))
          => events_doc.events = ExpectedEvents(n_df)

\* ------------------------------------------------------------------ flow claims
\* the rows of the table that went past the filter of the loop
Passed(rows) == SelectSeq(rows, LAMBDA r : ~Skipped(r))

RECURSIVE SumNotional(_)
SumNotional(rows) ==
    IF rows = <<>> THEN 0 ELSE RowNotional(rows[1]).v + SumNotional(Tail(rows))

IsZeroOrNaN(row) ==
    \/ row.adl_notional.kind = "nan"
    \/ row.adl_notional.kind = "num" /\ row.adl_notional.v = 0
IsPositive(row) == row.adl_notional.kind = "num" /\ row.adl_notional.v > 0

\* the magnitude of the adl_notional of a row
RECURSIVE SumMagnitude(_)
SumMagnitude(rows) ==
    IF rows = <<>> THEN 0
    ELSE (IF rows[1].adl_notional.v < 0 THEN -rows[1].adl_notional.v ELSE rows[1].adl_notional.v)
         + SumMagnitude(Tail(rows))

\* Every aggregate is made of the rows `counted` alone: each map has the keys of
\* those rows and their total, and the time buckets are their seconds, with
\* their counts and sums.
AggregatesAreOf(counted) ==
    LET total == SumMagnitude(counted)
        InBucket(key) == SelectSeq(counted, LAMBDA r : TimeBucket(r.time) = key)
    IN  /\ Keys(asset_totals) = {counted[i].coin : i \in DOMAIN counted}
        /\ Keys(liquidated_by_asset) = Keys(asset_totals)
        /\ Keys(adld_by_asset) = Keys(asset_totals)
        /\ Keys(asset_flows) = Keys(asset_totals)
        /\ Keys(account_totals_out) = {counted[i].liquidated_user : i \in DOMAIN counted}
        /\ Keys(account_flows) = Keys(account_totals_out)
        /\ Keys(account_totals_in) = {counted[i].user : i \in DOMAIN counted}
        /\ SumValues(asset_totals) = total
        /\ SumValues(liquidated_by_asset) = total
        /\ SumValues(adld_by_asset) = total
        /\ SumField(Edges(asset_flows), "notional") = total
        /\ SumField(Edges(account_flows), "notional") = total
        /\ SumValues(account_totals_out) = total
        /\ SumValues(account_totals_in) = total
        /\ Keys(time_buckets) = {TimeBucket(counted[i].time) : i \in DOMAIN counted}
        /\ \A i \in DOMAIN time_buckets :
              /\ time_buckets[i].v.eventCount = Len(InBucket(time_buckets[i].k))
              /\ time_buckets[i].v.cumulativeNotional = SumMagnitude(InBucket(time_buckets[i].k))
              /\ SumValues(time_buckets[i].v.liquidatedByAsset) = SumMagnitude(InBucket(time_buckets[i].k))
              /\ SumValues(time_buckets[i].v.adldByAsset) = SumMagnitude(InBucket(time_buckets[i].k))

\* a table whose notionals are all > 0: no row is skipped, none has its sign dropped
PlainTable == \A i \in DOMAIN df : IsPositive(df[i])

\* C2 as stated: a row whose adl_notional is 0 or negative is excluded from all
\* aggregates and creates no time bucket: the aggregates are those of the rows
\* whose adl_notional is > 0.
C2_NonPositiveExcluded == AggregatesAreOf(SelectSeq(df, IsPositive))

\* C2 amended: a row whose adl_notional is 0 (or NaN) is excluded from all
\* aggregates and creates no time bucket; a row whose adl_notional is negative is
\* counted with its absolute value.
C2_ZeroExcluded == AggregatesAreOf(SelectSeq(df, LAMBDA r : ~IsZeroOrNaN(r)))

\* a zero row alone in its second, next to rows that are counted
C2_Witness ==
    /\ pc = "done"
    /\ \E i \in DOMAIN df :
          /\ df[i].adl_notional = Num(0)
          /\ \A j \in DOMAIN df : j # i => TimeBucket(df[j].time) # TimeBucket(df[i].time)
          /\ ~Has(time_buckets, TimeBucket(df[i].time))
    /\ \E i \in DOMAIN df : df[i].adl_notional = Num(-2)
    /\ \E i \in DOMAIN df : df[i].adl_notional = Num(1)

\* C3: after every prefix of the pass the sum of the assetTotals values is the sum
\* of the notionals of the rows that passed the filter, and the emitted
\* metadata.totalNotionalUsd is that sum.
C3_Conservation ==
    /\ SumValues(asset_totals) = SumNotional(Passed(df))
    /\ pc = "done" => output_data.metadata.totalNotionalUsd = SumNotional(Passed(df))

C3_Witness ==
    /\ pc = "done"
    /\ Len(asset_totals) = 2
    /\ Len(Passed(df)) = 3
    /\ output_data.metadata.totalNotionalUsd = 4

\* C4: the emitted buckets are strictly ascending in time, cumulativeNotional of
\* bucket i is the sum of notionalInBucket over buckets 1..i, it never decreases,
\* and the last one is the total notional of the rows that passed the filter.
C4_PrefixSums ==
    pc = "done" =>
        LET tb == output_data.timeBuckets
        IN  /\ \A i \in DOMAIN tb : \A j \in DOMAIN tb : i < j => tb[i].time < tb[j].time
            /\ \A i \in DOMAIN tb :
                  tb[i].cumulativeNotional = SumField(SubSeq(tb, 1, i), "notionalInBucket")
            /\ \A i \in DOMAIN tb :
                  i > 1 => tb[i - 1].cumulativeNotional <= tb[i].cumulativeNotional
            /\ tb # <<>> => tb[Len(tb)].cumulativeNotional = SumNotional(Passed(df))

\* three buckets that were created out of time order
C4_Witness ==
    /\ pc = "done"
    /\ Len(output_data.timeBuckets) = 3
    /\ time_buckets[1].k > time_buckets[2].k
    /\ output_data.timeBuckets[3].cumulativeNotional = 4

\* the accounts of the two emitted top lists
TopLiquidated == Keys(output_data.topAccounts.liquidated)
TopCounterparties == Keys(output_data.topAccounts.counterparties)

\* C5 as stated: no emitted account edge has its source outside the top-k
\* liquidated accounts and its target outside the top-k counterparties
\* (read on the tables whose notionals are all > 0).
C5_RespectiveDirection ==
    (pc = "done" /\ PlainTable) =>
        \A i \in DOMAIN output_data.accountFlows :
            LET e == output_data.accountFlows[i]
            IN  ~(e.source \notin TopLiquidated /\ e.target \notin TopCounterparties)

\* C5 amended: no emitted account edge has an endpoint outside both top-k lists:
\* source and target are each in the union of the top-k liquidated accounts and
\* the top-k counterparties.
C5_BothEndpointsInUnion ==
    pc = "done" =>
        \A i \in DOMAIN output_data.accountFlows :
            LET e == output_data.accountFlows[i]
            IN  /\ e.source \in TopLiquidated \cup TopCounterparties
                /\ e.target \in TopLiquidated \cup TopCounterparties

\* more than k accounts in each direction, an edge kept and an edge dropped
C5_Witness ==
    /\ pc = "done"
    /\ Len(account_totals_out) > Len(output_data.topAccounts.liquidated)
    /\ Len(account_totals_in) > Len(output_data.topAccounts.counterparties)
    /\ output_data.accountFlows # <<>>
    /\ Len(output_data.accountFlows) < Len(Edges(account_flows))

\* floor(timestampMs / 1000) * 1000
FloorBucket(timestamp_ms) == (timestamp_ms \div 1000) * 1000

\* C7: every row that passes the filter is counted in the bucket whose key is
\* floor(timestampMs/1000)*1000 and in no other, so the bucket keys are exactly
\* the one-second windows of the rows that passed
\* (read on the tables whose notionals are all > 0).
C7_FloorBuckets ==
    PlainTable =>
    /\ Keys(time_buckets) = {FloorBucket(Passed(df)[i].time) : i \in DOMAIN Passed(df)}
    /\ \A i \in DOMAIN time_buckets :
          time_buckets[i].v.eventCount =
              Cardinality({j \in DOMAIN Passed(df) : FloorBucket(Passed(df)[j].time) = time_buckets[i].k})

RECURSIVE MinTime(_)
MinTime(rows) ==
    IF Len(rows) = 1 THEN rows[1].time
    ELSE LET m == MinTime(Tail(rows)) IN IF rows[1].time < m THEN rows[1].time ELSE m

RECURSIVE MaxTime(_)
MaxTime(rows) ==
    IF Len(rows) = 1 THEN rows[1].time
    ELSE LET m == MaxTime(Tail(rows)) IN IF rows[1].time > m THEN rows[1].time ELSE m

\* C8 as stated: timeRange.start and .end are the minimum and maximum time over
\* all rows, skipped ones included, hence start <= every bucket start <= end
\* (read on the tables without a negative time, where int() is floor, and whose
\* notionals are all > 0).
C8_RangeCoversBuckets ==
    (pc = "done" /\ PlainTable /\ \A i \in DOMAIN df : df[i].time >= 0) =>
        LET r == output_data.metadata.timeRange
            tb == output_data.timeBuckets
        IN  /\ r.start = MinTime(df) /\ r.end = MaxTime(df)
            /\ \A i \in DOMAIN tb : r.start <= tb[i].time /\ tb[i].time <= r.end

\* C8 amended: timeRange.start and .end are the minimum and maximum time over
\* all rows, skipped ones included; every bucket start lies strictly between
\* start - 1000 and end + 1000.
C8_RangeOverAllRows ==
    pc = "done" =>
        LET r == output_data.metadata.timeRange
            tb == output_data.timeBuckets
        IN  /\ r.start = MinTime(df) /\ r.end = MaxTime(df)
            /\ \A i \in DOMAIN tb : r.start - 1000 < tb[i].time /\ tb[i].time < r.end + 1000

\* the first and the last row in time were skipped: the range is wider than the buckets
C8_Witness ==
    /\ pc = "done"
    /\ Len(output_data.timeBuckets) = 1
    /\ output_data.metadata.timeRange.start < output_data.timeBuckets[1].time - 1000
    /\ output_data.metadata.timeRange.end > output_data.timeBuckets[1].time + 1000

\* the sum of accountFlows[u][v] over the sources u
RECURSIVE SumInto(_, _)
SumInto(flows, v) ==
    IF flows = <<>> THEN 0
    ELSE (IF Has(flows[1].v, v) THEN Get(flows[1].v, v) ELSE 0) + SumInto(Tail(flows), v)

\* C9: after every processed row accountTotalsOut[u] is the sum of
\* accountFlows[u][v] over v, accountTotalsIn[v] is the sum of accountFlows[u][v]
\* over u, and the sums of accountTotalsOut, accountTotalsIn and assetTotals agree.
C9_Marginals ==
    /\ Keys(account_totals_out) = Keys(account_flows)
    /\ \A u \in Keys(account_totals_out) :
          Get(account_totals_out, u) = SumValues(Get(account_flows, u))
    /\ \A i \in DOMAIN account_flows : Keys(account_flows[i].v) \subseteq Keys(account_totals_in)
    /\ \A v \in Keys(account_totals_in) :
          Get(account_totals_in, v) = SumInto(account_flows, v)
    /\ SumValues(account_totals_out) = SumValues(account_totals_in)
    /\ SumValues(account_totals_in) = SumValues(asset_totals)

\* one source with two targets and one target with two sources
C9_Witness ==
    /\ Len(df) = 3
    /\ \E i \in DOMAIN account_flows : Len(account_flows[i].v) = 2
    /\ \E v \in Keys(account_totals_in) :
          Cardinality({i \in DOMAIN account_flows : Has(account_flows[i].v, v)}) = 2

\* C10: the eventCounts of the emitted buckets add up to the number of rows that
\* passed the filter, each is >= 1, and metadata.eventCount is >= that sum, with
\* equality exactly when no row was skipped.
C10_EventCounts ==
    pc = "done" =>
        LET tb == output_data.timeBuckets
            total == SumField(tb, "eventCount")
        IN  /\ total = Len(Passed(df))
            /\ \A i \in DOMAIN tb : tb[i].eventCount >= 1
            /\ output_data.metadata.eventCount >= total
            /\ (output_data.metadata.eventCount = total) <=> (\A i \in DOMAIN df : ~Skipped(df[i]))

\* a bucket of two events next to a skipped row
C10_Witness ==
    /\ pc = "done"
    /\ \E i \in DOMAIN output_data.timeBuckets : output_data.timeBuckets[i].eventCount = 2
    /\ output_data.metadata.eventCount = 3

====
